---- MODULE Spec2Model ----
(***************************************************************************)
(* Model of the two current-driven Poisson generators of the cerebellum    *)
(* module: mynest::cd_poisson_generator (linear current -> rate map) and   *)
(* mynest::rbf_poisson_generator (Gaussian current -> rate map).           *)
(*                                                                         *)
(* Numbers.  The C++ doubles are modelled by exact rationals               *)
(* [num, den] in lowest terms with den > 0 (den = 0 stands for the IEEE    *)
(* results of a division by zero).  Currents are integers counted in       *)
(* units of 0.25 nA, so the default max_current 1.0 nA is 4 and 0.5 nA     *)
(* is 2.  Rates are in Hz.                                                 *)
(*                                                                         *)
(* Every handler is one atomic action (the device is only ever used by     *)
(* one thread).  The variable call holds the operations the last handler   *)
(* performed, in program order, each with the rate and lambda that         *)
(* the device held right after it; err tells whether the last handler      *)
(* threw BadProperty.                                                       *)
(***************************************************************************)
EXTENDS Integers, Sequences, FiniteSets, TLC

(* ---------------- bounds of the model ---------------- *)

\* largest spike count one Poisson draw returns in the model
MaxSpikes == 2

\* the counts a Poisson draw returns in the model
DrawValues == {0, MaxSpikes}

\* largest number of CurrentEvents waiting in the ring buffer in the model
MaxPending == 2

(* ---------------- kernel configuration ---------------- *)

\* nest::kernel().connection_manager.get_min_delay(), in steps
min_delay == 2
\* the largest connection delay, in steps: every connection has the same delay
max_delay == min_delay
\* number of targets the DSSpikeEvent of the RBF variant is delivered to
NumTargets == 2

(* ---------------- rational arithmetic ---------------- *)

Abs(x) == IF x < 0 THEN -x ELSE x

Sign(x) == IF x < 0 THEN -1 ELSE IF x > 0 THEN 1 ELSE 0

RECURSIVE GCD(_, _)
GCD(a, b) == IF b = 0 THEN a ELSE GCD(b, a % b)

\* the rational n/d in lowest terms; d = 0 gives +inf, -inf or NaN
MkRat(n, d) ==
    IF d = 0 THEN [num |-> Sign(n), den |-> 0]
    ELSE LET g == GCD(Abs(n), Abs(d))
             s == Sign(d)
         IN  [num |-> (s * n) \div g, den |-> (s * d) \div g]

FromInt(i) == [num |-> i, den |-> 1]

Zero == FromInt(0)

RatAdd(a, b) == MkRat(a.num * b.den + b.num * a.den, a.den * b.den)

RatSub(a, b) == MkRat(a.num * b.den - b.num * a.den, a.den * b.den)

RatMul(a, b) == MkRat(a.num * b.num, a.den * b.den)

RatDiv(a, b) == MkRat(a.num * b.den, a.den * b.num)

RatLT(a, b) == a.num * b.den < b.num * a.den

RatLE(a, b) == a.num * b.den <= b.num * a.den

\* std::exp(-x) for x >= 0, by the rational 1 / (1 + x + x^2/2): it is 1 at
\* x = 0, lies in (0, 1] and decreases strictly, as std::exp(-x) does
ExpNeg(x) ==
    RatDiv(FromInt(1),
           RatAdd(FromInt(1), RatAdd(x, RatDiv(RatMul(x, x), FromInt(2)))))

(* ---------------- state ---------------- *)

VARIABLES
    variant,       \* "cd" or "rbf": which device class was constructed
    P_,            \* Parameters_
    S_,            \* State_
    V_,            \* Variables_: the lambda of poisson_dev_
    B_,            \* Buffers_: the slots of the ring buffer currents_
    calibrated,    \* calibrate() has run at least once
    slice_origin,  \* the kernel clock at the slice origin, modulo the buffer size
    from_step,     \* first step of the slice that is still to be updated
    pending,       \* per slot, the CurrentEvents handled since its last drain
    call,          \* operations performed by the last handler, in order
    err            \* the last handler threw BadProperty

vars == <<variant, P_, S_, V_, B_, calibrated, slice_origin, from_step,
          pending, call, err>>

\* number of slots of nest::RingBuffer
BufferSize == min_delay + max_delay

Slots == 0 .. (BufferSize - 1)

\* nest::Time::get_resolution().get_ms(): the kernel's default, 0.1 ms
Resolution == MkRat(1, 10)

\* the literal 1e-3
Milli == MkRat(1, 1000)

\* the argument of V_.poisson_dev_.set_lambda
LambdaOf(rate) == RatMul(RatMul(Resolution, rate), Milli)

\* e.get_weight() and e.get_current() of the CurrentEvents of the model
Weights == {2}

Amplitudes == {1}

\* e.get_rel_delivery_steps(slice origin): an event sent in the running slice
\* with a delay in min_delay .. max_delay is due in the next slice
DeliveryOffsets == min_delay .. (BufferSize - 1)

(* ---------------- constructors ---------------- *)

cd_Parameters_ ==
    [min_rate_ |-> FromInt(1), max_rate_ |-> FromInt(10),
     min_current_ |-> 0, max_current_ |-> 4]

cd_State_ == [rate_ |-> FromInt(5), input_current_ |-> 0]

rbf_Parameters_ ==
    [min_rate_rbf_ |-> FromInt(1), max_rate_rbf_ |-> FromInt(10),
     mean_current_rbf_ |-> 0, sigma_current_rbf_ |-> 4]

rbf_State_ == [rate_ |-> FromInt(5)]

\* B_.currents_.clear()
init_buffers_ == [currents_ |-> [s \in Slots |-> 0]]

Init ==
    /\ variant \in {"cd", "rbf"}
    /\ P_ = IF variant = "cd" THEN cd_Parameters_ ELSE rbf_Parameters_
    /\ S_ = IF variant = "cd" THEN cd_State_ ELSE rbf_State_
    /\ V_ = [poisson_dev_ |-> Zero]
    /\ B_ = init_buffers_
    /\ calibrated = FALSE
    /\ slice_origin = 0
    /\ from_step = 0
    /\ pending = [s \in Slots |-> <<>>]
    /\ call = <<>>
    /\ err = FALSE

(* ---------------- status dictionaries ---------------- *)

\* values a status dictionary may carry for each key
DictValues(k) ==
    CASE k = "min_rate"      -> {-1, 0, 1}
      [] k = "max_rate"      -> {-1, 0, 10}
      [] k = "min_current"   -> {0, 4}
      [] k = "max_current"   -> {0, 4}
      [] k = "mean_current"  -> {0, 2}
      [] k = "sigma_current" -> {2, 4}
      [] k = "rate"          -> {-1, 0, 7}
      [] k = "I"             -> {2}

cd_Keys == {"min_rate", "max_rate", "min_current", "max_current", "rate", "I"}

rbf_Keys == {"min_rate", "max_rate", "mean_current", "sigma_current", "rate"}

\* the dictionaries with exactly the keys K
RECURSIVE DictsOver(_)
DictsOver(K) ==
    IF K = {} THEN {[k \in {} |-> 0]}
    ELSE LET k == CHOOSE x \in K : TRUE
         IN  {(k :> v) @@ r : v \in DictValues(k), r \in DictsOver(K \ {k})}

\* dictionaries with at most one key, and dictionaries that carry every key
Dicts(Keys) ==
    UNION {DictsOver(K) : K \in {L \in SUBSET Keys : Cardinality(L) <= 1 \/ L = Keys}}

cd_Dicts == Dicts(cd_Keys)

rbf_Dicts == Dicts(rbf_Keys)

\* the dictionaries used while the device is simulated
cd_RunDicts ==
    {("min_rate" :> 0), ("max_rate" :> 0), ("min_current" :> 4),
     ("max_current" :> 0), ("rate" :> 7)}

rbf_RunDicts == {("rate" :> 0), ("rate" :> -1), ("mean_current" :> 2)}

\* updateValue< double >( d, name, field )
updateValue(d, name, field) == IF name \in DOMAIN d THEN d[name] ELSE field

updateRate(d, name, field) ==
    IF name \in DOMAIN d THEN FromInt(d[name]) ELSE field

(* ---------------- set_status ---------------- *)

\* Parameters_::set: the fields after the four updateValue calls
cd_Parameters_set(p, d) ==
    [min_rate_    |-> updateRate(d, "min_rate", p.min_rate_),
     max_rate_    |-> updateRate(d, "max_rate", p.max_rate_),
     min_current_ |-> updateValue(d, "min_current", p.min_current_),
     max_current_ |-> updateValue(d, "max_current", p.max_current_)]

\* Parameters_::set: the condition under which it throws BadProperty
cd_BadProperty(p) == RatLT(p.min_rate_, Zero) \/ RatLT(p.max_rate_, Zero)

cd_State_set(s, d) ==
    [rate_          |-> updateRate(d, "rate", s.rate_),
     input_current_ |-> updateValue(d, "I", s.input_current_)]

\* a set_status that writes the live P_ and S_ before it validates
cd_set_status_in_place(D) ==
    /\ variant = "cd"
    /\ \E d \in D :
         /\ P_' = cd_Parameters_set(P_, d)
         /\ S_' = cd_State_set(S_, d)
         /\ err' = cd_BadProperty(cd_Parameters_set(P_, d))
         /\ call' = <<[op |-> "set_status", dict |-> d]>>
    /\ UNCHANGED <<variant, V_, B_, calibrated, slice_origin, from_step, pending>>

cd_set_status(D) ==
    /\ variant = "cd"
    /\ \E d \in D :
         LET ptmp == cd_Parameters_set(P_, d)
             stmp == cd_State_set(S_, d)
         IN  /\ IF cd_BadProperty(ptmp)
                  THEN /\ err' = TRUE
                       /\ UNCHANGED <<P_, S_>>
                  ELSE /\ err' = FALSE
                       /\ P_' = ptmp
                       /\ S_' = stmp
             /\ call' = <<[op |-> "set_status", dict |-> d]>>
    /\ UNCHANGED <<variant, V_, B_, calibrated, slice_origin, from_step, pending>>

rbf_Parameters_set(p, d) ==
    [min_rate_rbf_      |-> updateRate(d, "min_rate", p.min_rate_rbf_),
     max_rate_rbf_      |-> updateRate(d, "max_rate", p.max_rate_rbf_),
     mean_current_rbf_  |-> updateValue(d, "mean_current", p.mean_current_rbf_),
     sigma_current_rbf_ |-> updateValue(d, "sigma_current", p.sigma_current_rbf_)]

rbf_BadProperty(p) ==
    \/ RatLT(p.min_rate_rbf_, Zero)
    \/ RatLT(p.max_rate_rbf_, Zero)
    \/ RatLT(p.max_rate_rbf_, p.min_rate_rbf_)

rbf_State_set(s, d) == [rate_ |-> updateRate(d, "rate", s.rate_)]

\* rbf_poisson_generator::set_status: validate into temporaries, then commit
rbf_set_status(D) ==
    /\ variant = "rbf"
    /\ \E d \in D :
         LET ptmp == rbf_Parameters_set(P_, d)
             stmp == rbf_State_set(S_, d)
         IN  /\ IF rbf_BadProperty(ptmp)
                  THEN /\ err' = TRUE
                       /\ UNCHANGED <<P_, S_>>
                  ELSE /\ err' = FALSE
                       /\ P_' = ptmp
                       /\ S_' = stmp
             /\ call' = <<[op |-> "set_status", dict |-> d]>>
    /\ UNCHANGED <<variant, V_, B_, calibrated, slice_origin, from_step, pending>>

(* ---------------- ring buffer and Poisson device ---------------- *)

\* The ring buffer is the kernel's nest::RingBuffer: add_value adds to the slot
\* of an offset, get_value returns the slot's value and clears it.
\* nest::RingBuffer::get_index_: the slot of the step at offset offs from the
\* slice origin
get_index_(offs) == (slice_origin + offs) % BufferSize

\* nest::RingBuffer::add_value
add_value(cur, offs, v) ==
    [cur EXCEPT ![get_index_(offs)] = cur[get_index_(offs)] + v]

\* nest::RingBuffer::get_value: the value read ...
get_value(cur, offs) == cur[get_index_(offs)]

\* ... and the buffer it leaves, with the slot cleared
get_value_clear(cur, offs) == [cur EXCEPT ![get_index_(offs)] = 0]

\* librandom::PoissonRandomDev::ldev: draw is the count the random source
\* yields; a Poisson variable of mean 0 is 0
ldev(lambda, draw) == IF lambda = Zero THEN 0 ELSE draw

\* one performed operation: arg is its integer datum (the current read, the
\* count drawn, the multiplicity sent), val the current a rate was computed
\* from, rate and lambda what the device held right after it
Ev(o, lag, tgt, arg, val, s, v) ==
    [op |-> o, lag |-> lag, tgt |-> tgt, arg |-> arg, val |-> val,
     rate |-> s.rate_, lambda |-> v.poisson_dev_]

\* the scheduler after update(from, to): the next slice starts when the
\* update reached the end of the slice
next_origin(to) ==
    IF to = min_delay THEN (slice_origin + min_delay) % BufferSize
    ELSE slice_origin

next_from(to) == IF to = min_delay THEN 0 ELSE to

\* the slots update(from, to) drains
Drained(from, to) == {get_index_(lag) : lag \in from .. (to - 1)}

\* number of CurrentEvents waiting in the buffer
NumPending == Cardinality({<<sl, i>> \in Slots \X (1 .. MaxPending) :
                              i <= Len(pending[sl])})

(* ---------------- cd_poisson_generator ---------------- *)

\* a rate map whose saturation tests are strict
LinearRate_strict(p, I) ==
    IF I < p.min_current_ THEN p.min_rate_
    ELSE IF I > p.max_current_ THEN p.max_rate_
    ELSE RatAdd(RatMul(RatDiv(FromInt(I - p.min_current_),
                              FromInt(p.max_current_ - p.min_current_)),
                       RatSub(p.max_rate_, p.min_rate_)),
                p.min_rate_)

\* a rate map whose interpolation forgets the offset min_rate
LinearRate_no_offset(p, I) ==
    IF I <= p.min_current_ THEN p.min_rate_
    ELSE IF I >= p.max_current_ THEN p.max_rate_
    ELSE RatMul(RatDiv(FromInt(I - p.min_current_),
                       FromInt(p.max_current_ - p.min_current_)),
                RatSub(p.max_rate_, p.min_rate_))

\* the current -> rate map of calibrate (repeated verbatim in update)
LinearRate(p, I) ==
    IF I <= p.min_current_ THEN p.min_rate_
    ELSE IF I >= p.max_current_ THEN p.max_rate_
    ELSE RatAdd(RatMul(RatDiv(FromInt(I - p.min_current_),
                              FromInt(p.max_current_ - p.min_current_)),
                       RatSub(p.max_rate_, p.min_rate_)),
                p.min_rate_)

cd_calibrate ==
    /\ variant = "cd"
    /\ LET s == [S_ EXCEPT !.rate_ = LinearRate(P_, S_.input_current_)]
           v == [poisson_dev_ |-> LambdaOf(s.rate_)]
       IN  /\ S_' = s
           /\ V_' = v
           /\ call' = <<Ev("set_rate", -1, 0, 0, FromInt(s.input_current_), s, V_),
                        Ev("set_lambda", -1, 0, 0, Zero, s, v)>>
    /\ calibrated' = TRUE
    /\ err' = FALSE
    /\ UNCHANGED <<variant, P_, B_, slice_origin, from_step, pending>>

\* a handler that adds w + c
cd_handle_sum ==
    /\ variant = "cd"
    /\ NumPending < MaxPending
    /\ \E w \in Weights, c \in Amplitudes, offs \in DeliveryOffsets :
         /\ B_' = [B_ EXCEPT !.currents_ = add_value(@, offs, w + c)]
         /\ pending' = [pending EXCEPT ![get_index_(offs)] =
                            Append(@, [w |-> w, c |-> c])]
    /\ call' = <<>>
    /\ err' = FALSE
    /\ UNCHANGED <<variant, P_, S_, V_, calibrated, slice_origin, from_step>>

\* handle(CurrentEvent&): w * c is added at the event's delivery offset
cd_handle ==
    /\ variant = "cd"
    /\ NumPending < MaxPending
    /\ \E w \in Weights, c \in Amplitudes, offs \in DeliveryOffsets :
         /\ B_' = [B_ EXCEPT !.currents_ = add_value(@, offs, w * c)]
         /\ pending' = [pending EXCEPT ![get_index_(offs)] =
                            Append(@, [w |-> w, c |-> c])]
    /\ call' = <<>>
    /\ err' = FALSE
    /\ UNCHANGED <<variant, P_, S_, V_, calibrated, slice_origin, from_step>>

\* the body of the for loop of update, for one lag
cd_step(st, lag, draw) ==
    LET new_current == get_value(st.cur, lag)
        cur1 == get_value_clear(st.cur, lag)
        ops1 == Append(st.ops, Ev("get_value", lag, 0, new_current, Zero, st.S, st.V))
        changed == st.S.input_current_ # new_current
        S1 == IF changed
              THEN [rate_ |-> LinearRate(P_, new_current),
                    input_current_ |-> new_current]
              ELSE st.S
        V1 == IF changed THEN [poisson_dev_ |-> LambdaOf(S1.rate_)] ELSE st.V
        ops2 == IF changed
                THEN ops1 \o <<Ev("set_rate", lag, 0, 0, FromInt(new_current), S1, st.V),
                               Ev("set_lambda", lag, 0, 0, Zero, S1, V1)>>
                ELSE ops1
        n_spikes == ldev(V1.poisson_dev_, draw)
        ops3 == IF RatLT(Zero, S1.rate_)
                THEN Append(ops2, Ev("ldev", lag, 0, n_spikes, Zero, S1, V1))
                     \o (IF n_spikes > 0
                         THEN <<Ev("send", lag, 0, n_spikes, Zero, S1, V1)>>
                         ELSE <<>>)
                ELSE ops2
    IN  [S |-> S1, V |-> V1, cur |-> cur1, ops |-> ops3]

RECURSIVE cd_loop(_, _, _, _)
cd_loop(st, lag, to, draws) ==
    IF lag < to
    THEN cd_loop(cd_step(st, lag, draws[lag]), lag + 1, to, draws)
    ELSE st

cd_update ==
    /\ variant = "cd"
    /\ calibrated
    /\ \E to \in (from_step + 1) .. min_delay :
         \E draws \in [from_step .. (to - 1) -> DrawValues] :
           \E st \in {cd_loop([S |-> S_, V |-> V_, cur |-> B_.currents_,
                               ops |-> <<>>], from_step, to, draws)} :
               /\ S_' = st.S
               /\ V_' = st.V
               /\ B_' = [B_ EXCEPT !.currents_ = st.cur]
               /\ call' = st.ops
               /\ pending' = [sl \in Slots |->
                                IF sl \in Drained(from_step, to) THEN <<>>
                                ELSE pending[sl]]
               /\ slice_origin' = next_origin(to)
               /\ from_step' = next_from(to)
    /\ err' = FALSE
    /\ UNCHANGED <<variant, P_, calibrated>>

(* ---------------- rbf_poisson_generator ---------------- *)

rbf_calibrate ==
    /\ variant = "rbf"
    /\ LET v == [poisson_dev_ |-> LambdaOf(S_.rate_)]
       IN  /\ V_' = v
           /\ call' = <<Ev("set_lambda", -1, 0, 0, Zero, S_, v)>>
    /\ calibrated' = TRUE
    /\ err' = FALSE
    /\ UNCHANGED <<variant, P_, S_, B_, slice_origin, from_step, pending>>

rbf_handle ==
    /\ variant = "rbf"
    /\ NumPending < MaxPending
    /\ \E w \in Weights, c \in Amplitudes, offs \in DeliveryOffsets :
         /\ B_' = [B_ EXCEPT !.currents_ = add_value(@, offs, w * c)]
         /\ pending' = [pending EXCEPT ![get_index_(offs)] =
                            Append(@, [w |-> w, c |-> c])]
    /\ call' = <<>>
    /\ err' = FALSE
    /\ UNCHANGED <<variant, P_, S_, V_, calibrated, slice_origin, from_step>>

\* an event_hook that delivers the event whatever the count
event_hook_unconditional(S, V, lag, tgt, draw) ==
    LET n_spikes == ldev(V.poisson_dev_, draw)
    IN  <<Ev("ldev", lag, tgt, n_spikes, Zero, S, V),
          Ev("send", lag, tgt, n_spikes, Zero, S, V)>>

\* event_hook(DSSpikeEvent&), called for target tgt at step lag
event_hook(S, V, lag, tgt, draw) ==
    LET n_spikes == ldev(V.poisson_dev_, draw)
    IN  <<Ev("ldev", lag, tgt, n_spikes, Zero, S, V)>>
        \o (IF n_spikes > 0 THEN <<Ev("send", lag, tgt, n_spikes, Zero, S, V)>>
            ELSE <<>>)

\* network()->send( *this, se, lag ): the DSSpikeEvent reaches every target
\* at once, and each delivery calls the sender's event_hook
RECURSIVE send_DSSpikeEvent(_, _, _, _, _)
send_DSSpikeEvent(S, V, lag, tgt, draws) ==
    IF tgt <= NumTargets
    THEN event_hook(S, V, lag, tgt, draws[<<lag, tgt>>])
         \o send_DSSpikeEvent(S, V, lag, tgt + 1, draws)
    ELSE <<>>

\* the body of the for loop of update, for one lag
rbf_step(st, lag, draws) ==
    [sum |-> st.sum + get_value(st.cur, lag),
     cur |-> get_value_clear(st.cur, lag),
     ops |-> Append(st.ops, Ev("get_value", lag, 0, get_value(st.cur, lag), Zero, S_, V_))
             \o send_DSSpikeEvent(S_, V_, lag, 1, draws)]

RECURSIVE rbf_loop(_, _, _, _)
rbf_loop(st, lag, to, draws) ==
    IF lag < to
    THEN rbf_loop(rbf_step(st, lag, draws), lag + 1, to, draws)
    ELSE st

\* an average that divides by to
AverageCurrent_by_to(current_sum, from, to) == MkRat(current_sum, to)

\* current_sum/(float) (to-from)
AverageCurrent(current_sum, from, to) == MkRat(current_sum, to - from)

\* the rate of the radial basis function at the averaged current
GaussianRate(p, average_current) ==
    LET dev == RatSub(average_current, FromInt(p.mean_current_rbf_))
        sig == FromInt(p.sigma_current_rbf_)
        gaussian == ExpNeg(RatDiv(RatMul(dev, dev),
                                  RatMul(RatMul(FromInt(2), sig), sig)))
    IN  RatAdd(p.min_rate_rbf_,
               RatMul(gaussian, RatSub(p.max_rate_rbf_, p.min_rate_rbf_)))

\* (the singleton quantifiers name values that are computed once)
rbf_update ==
    /\ variant = "rbf"
    /\ calibrated
    /\ \E to \in (from_step + 1) .. min_delay :
         \E draws \in [(from_step .. (to - 1)) \X (1 .. NumTargets)
                           -> DrawValues] :
           \E st \in {rbf_loop([sum |-> 0, cur |-> B_.currents_, ops |-> <<>>],
                                from_step, to, draws)} :
           \E average_current \in {AverageCurrent(st.sum, from_step, to)} :
           \E s \in {[rate_ |-> GaussianRate(P_, average_current)]} :
           \E v \in {[poisson_dev_ |-> LambdaOf(s.rate_)]} :
               /\ S_' = s
               /\ V_' = v
               /\ B_' = [B_ EXCEPT !.currents_ = st.cur]
               /\ call' = st.ops
                           \o <<Ev("set_rate", to - 1, 0, st.sum,
                                   average_current, s, V_),
                                Ev("set_lambda", to - 1, 0, 0, Zero, s, v)>>
               /\ pending' = [sl \in Slots |->
                                IF sl \in Drained(from_step, to) THEN <<>>
                                ELSE pending[sl]]
               /\ slice_origin' = next_origin(to)
               /\ from_step' = next_from(to)
    /\ err' = FALSE
    /\ UNCHANGED <<variant, P_, calibrated>>

(* ---------------- specification ---------------- *)

Next ==
    \/ cd_set_status(cd_RunDicts)
    \/ cd_calibrate
    \/ cd_handle
    \/ cd_update
    \/ rbf_set_status(rbf_RunDicts)
    \/ rbf_calibrate
    \/ rbf_handle
    \/ rbf_update

Spec == Init /\ [][Next]_vars

\* configuration only: every status dictionary, no simulation
NextConfig ==
    \/ cd_set_status(cd_Dicts)
    \/ cd_calibrate
    \/ rbf_set_status(rbf_Dicts)
    \/ rbf_calibrate

SpecConfig == Init /\ [][NextConfig]_vars
(* ---------------- properties ---------------- *)

\* the last handler was set_status
IsSetStatus(c) == c # <<>> /\ c[1].op = "set_status"

\* the last handler was update
IsUpdate(c) == c # <<>> /\ c[1].op = "get_value"

\* the value the linear device holds for the dictionary key k
cd_Field(p, s, k) ==
    CASE k = "min_rate"    -> p.min_rate_
      [] k = "max_rate"    -> p.max_rate_
      [] k = "min_current" -> FromInt(p.min_current_)
      [] k = "max_current" -> FromInt(p.max_current_)
      [] k = "rate"        -> s.rate_
      [] k = "I"           -> FromInt(s.input_current_)

MinRate == IF variant = "cd" THEN P_.min_rate_ ELSE P_.min_rate_rbf_

MaxRate == IF variant = "cd" THEN P_.max_rate_ ELSE P_.max_rate_rbf_

\* C1: set_status of the linear variant is atomic.  A call whose dictionary
\* carries a negative min_rate throws; a call that throws leaves P_ and S_ as
\* they were, whatever else the dictionary carries; a call whose dictionary
\* carries no negative rate succeeds, and after a call that succeeds P_ and
\* S_ hold every value the dictionary supplied.
C1_SetStatusAtomic ==
    [][(variant = "cd" /\ IsSetStatus(call'))
        => LET d == call'[1].dict
           IN  /\ ("min_rate" \in DOMAIN d /\ d["min_rate"] < 0) => err'
               /\ err' => (P_' = P_ /\ S_' = S_)
               /\ (\A k \in DOMAIN d \cap {"min_rate", "max_rate"} : d[k] >= 0)
                      => ~err'
               /\ ~err' => \A k \in DOMAIN d :
                               cd_Field(P_', S_', k) = FromInt(d[k])]_vars

\* a dictionary with min_rate = -1 and valid values for every other key was
\* rejected on a device whose parameters had been changed before
C1_Witness ==
    /\ variant = "cd"
    /\ IsSetStatus(call)
    /\ err
    /\ DOMAIN call[1].dict = cd_Keys
    /\ call[1].dict["min_rate"] = -1
    /\ call[1].dict["max_rate"] = 10
    /\ P_ # cd_Parameters_
    /\ S_ # cd_State_

\* C5: on either variant the live Parameters satisfy 0 <= min_rate <= max_rate
C5_ParameterInvariant == RatLE(Zero, MinRate) /\ RatLE(MinRate, MaxRate)
(* ---- operations of the last handler ---- *)

\* the get_value operations of the handler c, in order
GetValues(c) == SelectSeq(c, LAMBDA e : e.op = "get_value")

RECURSIVE SumArgs(_)
SumArgs(q) == IF q = <<>> THEN 0 ELSE Head(q).arg + SumArgs(Tail(q))

\* the sum of weight * amplitude over the events q
RECURSIVE PendingSum(_)
PendingSum(q) ==
    IF q = <<>> THEN 0 ELSE Head(q).w * Head(q).c + PendingSum(Tail(q))

\* the send operations for target tgt at step lag
SendsAt(lag, tgt) ==
    {j \in DOMAIN call :
        call[j].op = "send" /\ call[j].lag = lag /\ call[j].tgt = tgt}

\* input currents the rate map is compared on
TestCurrents == -1 .. 5

\* C2: in every step of every update, a drawn count of 0 emits no spike
\* event, a drawn count n > 0 emits exactly one spike event, right after the
\* draw, with multiplicity n and the step's lag (per target in the RBF
\* variant); every emitted event has a multiplicity > 0 and follows a draw
\* of its step and target.
C2_ZeroCountSuppression ==
    \A i \in DOMAIN call :
        /\ call[i].op = "ldev" =>
               /\ call[i].arg = 0 => SendsAt(call[i].lag, call[i].tgt) = {}
               /\ call[i].arg > 0 =>
                      /\ SendsAt(call[i].lag, call[i].tgt) = {i + 1}
                      /\ call[i + 1].arg = call[i].arg
        /\ call[i].op = "send" =>
               /\ call[i].arg > 0
               /\ i > 1
               /\ call[i - 1].op = "ldev"
               /\ call[i - 1].lag = call[i].lag
               /\ call[i - 1].tgt = call[i].tgt

\* an update in which one draw returned a count > 1, sent as one event, and
\* another draw returned 0
C2_Witness ==
    /\ IsUpdate(call)
    /\ \E i, j \in DOMAIN call :
         /\ call[i].op = "ldev" /\ call[i].arg = MaxSpikes
         /\ call[i + 1].op = "send" /\ call[i + 1].arg = MaxSpikes
         /\ call[j].op = "ldev" /\ call[j].arg = 0

\* C3: in the linear variant every rate computed by calibrate or update is
\* min_rate when the input current is <= min_current and max_rate when the
\* input current is >= max_current, for every accepted Parameters value
C3_SaturationLaw ==
    variant = "cd" =>
        \A i \in DOMAIN call :
            call[i].op = "set_rate" =>
                /\ RatLE(call[i].val, FromInt(P_.min_current_))
                       => call[i].rate = P_.min_rate_
                /\ RatLE(FromInt(P_.max_current_), call[i].val)
                       => call[i].rate = P_.max_rate_

\* C4: in the linear variant a rate computed by calibrate or update from an
\* input current strictly between min_current and max_current is
\* (I - min_current) / (max_current - min_current) * (max_rate - min_rate)
\* + min_rate; when max_rate >= min_rate the rate map does not decrease over
\* the whole input range; and min_current 0, max_current 1 nA, min_rate 1,
\* max_rate 10, input 0.5 nA give 5.5.
C4_Linearity ==
    /\ variant = "cd" =>
           \A i \in DOMAIN call :
               (/\ call[i].op = "set_rate"
                /\ RatLT(FromInt(P_.min_current_), call[i].val)
                /\ RatLT(call[i].val, FromInt(P_.max_current_)))
               => call[i].rate =
                      RatAdd(RatMul(RatDiv(RatSub(call[i].val,
                                                  FromInt(P_.min_current_)),
                                           FromInt(P_.max_current_
                                                   - P_.min_current_)),
                                    RatSub(P_.max_rate_, P_.min_rate_)),
                             P_.min_rate_)
    /\ (variant = "cd" /\ RatLE(P_.min_rate_, P_.max_rate_)) =>
           \A I1, I2 \in TestCurrents :
               I1 <= I2 => RatLE(LinearRate(P_, I1), LinearRate(P_, I2))
    /\ LinearRate(cd_Parameters_, 2) = MkRat(11, 2)

\* update computed a rate by interpolation, from the current 0.5 nA under the
\* default parameters
C4_Witness ==
    /\ variant = "cd"
    /\ IsUpdate(call)
    /\ P_ = cd_Parameters_
    /\ \E i \in DOMAIN call :
         /\ call[i].op = "set_rate"
         /\ call[i].val = FromInt(2)
         /\ call[i].rate = MkRat(11, 2)

\* C6: update(from, to) drains every step lag of [from, to) exactly once, in
\* order; the value drained for a step is the sum of weight * amplitude over
\* the CurrentEvents handled for that step since its slot was last drained
\* (0 when there were none); and a drained slot holds 0 afterwards.
C6_Accumulator ==
    [][IsUpdate(call') =>
        LET to == IF from_step' = 0 THEN min_delay ELSE from_step'
            gv == GetValues(call')
        IN  /\ Len(gv) = to - from_step
            /\ \A k \in 1 .. Len(gv) :
                 /\ gv[k].lag = from_step + k - 1
                 /\ gv[k].arg = PendingSum(pending[get_index_(gv[k].lag)])
                 /\ B_'.currents_[get_index_(gv[k].lag)] = 0
                 /\ pending'[get_index_(gv[k].lag)] = <<>>]_vars

\* an update drained a step that two events had contributed to and a step
\* nothing had contributed to
C6_Witness ==
    /\ IsUpdate(call)
    /\ \E i, j \in DOMAIN call :
         /\ call[i].op = "get_value" /\ call[i].arg = 4
         /\ call[j].op = "get_value" /\ call[j].arg = 0

\* C7: in every update of the RBF variant the averaged current is the sum of
\* the currents drained for the steps of the slice divided by their number,
\* the rate is the Gaussian map of that average, and the rate and the lambda
\* are each written exactly once, as the last two operations of the call,
\* after every step has been drained; drained currents 0, 0, 2, 2 average to 1.
C7_SliceAveraging ==
    /\ (variant = "rbf" /\ IsUpdate(call)) =>
           LET gv == GetValues(call)
               n == Len(call)
               avg == MkRat(SumArgs(gv), Len(gv))
           IN  /\ call[n - 1].op = "set_rate"
               /\ call[n].op = "set_lambda"
               /\ \A i \in 1 .. (n - 2) :
                      call[i].op \notin {"set_rate", "set_lambda"}
               /\ call[n - 1].val = avg
               /\ call[n - 1].rate = GaussianRate(P_, avg)
               /\ S_.rate_ = call[n - 1].rate
               /\ V_.poisson_dev_ = call[n].lambda
    /\ AverageCurrent(0 + 0 + 2 + 2, 0, 4) = FromInt(1)

\* an update of the RBF variant over the second step of a slice only, which
\* drained a non-zero current
C7_Witness ==
    /\ variant = "rbf"
    /\ IsUpdate(call)
    /\ Len(GetValues(call)) = 1
    /\ GetValues(call)[1].lag = 1
    /\ GetValues(call)[1].arg = 2
    /\ call[Len(call) - 1].val = FromInt(2)

\* C8: whenever a spike count is drawn, the sampler's lambda is
\* resolution_ms * rate * 1e-3 for the rate the State then holds
C8_LambdaConsistency ==
    \A i \in DOMAIN call :
        call[i].op = "ldev" => call[i].lambda = LambdaOf(call[i].rate)

\* C9: within one update the accumulator is drained, the rate computed and
\* the lambda set before the spike count is drawn; in the RBF variant the
\* counts drawn in a slice use the lambda derived from that slice's average
C9_ControlFlowOrder ==
    IsUpdate(call) =>
        \A i \in DOMAIN call :
            call[i].op = "ldev" =>
                /\ \E j \in 1 .. (i - 1) :
                       call[j].op = "get_value" /\ call[j].lag = call[i].lag
                /\ \A j \in DOMAIN call :
                       (/\ call[j].op \in {"set_rate", "set_lambda"}
                        /\ (variant = "rbf" \/ call[j].lag = call[i].lag))
                       => j < i
                /\ variant = "rbf" => call[i].lambda = V_.poisson_dev_

\* C10: the Poisson sampler is called only in steps where the rate is > 0,
\* and then once per step (per target in the RBF variant)
C10_NoSamplingAtZeroRate ==
    \A i \in DOMAIN call :
        call[i].op = "ldev" =>
            /\ RatLT(Zero, call[i].rate)
            /\ \A j \in DOMAIN call :
                   (/\ call[j].op = "ldev"
                    /\ call[j].lag = call[i].lag
                    /\ call[j].tgt = call[i].tgt)
                   => j = i

\* C11 as stated: when calibrate or update of the linear variant has
\* evaluated the rate under max_current = min_current, there is an input
\* current for which that evaluation reaches the interpolation and divides by
\* max_current - min_current = 0 (the quotient then has the denominator 0)
C11_DegenerateIntervalDivides ==
    (/\ variant = "cd"
     /\ P_.max_current_ = P_.min_current_
     /\ \E i \in DOMAIN call : call[i].op = "set_rate") =>
        \E I \in TestCurrents : LinearRate(P_, I).den = 0

\* C11 as amended: no rate evaluation of calibrate or update divides by
\* zero; under max_current <= min_current (so also under max_current =
\* min_current) the interpolation is never reached: the rate is min_rate for
\* an input current <= min_current and max_rate for every other one
C11_NoDivisionByZero ==
    variant = "cd" =>
        /\ \A i \in DOMAIN call :
               call[i].op = "set_rate" =>
                   /\ call[i].rate.den # 0
                   /\ P_.max_current_ <= P_.min_current_ =>
                          call[i].rate =
                              IF RatLE(call[i].val, FromInt(P_.min_current_))
                              THEN P_.min_rate_ ELSE P_.max_rate_
        /\ P_.max_current_ <= P_.min_current_ =>
               \A I \in TestCurrents :
                   LinearRate(P_, I) \in {P_.min_rate_, P_.max_rate_}

\* under max_current = min_current an update computed a rate from a drained
\* current equal to both bounds (the input for which the interpolation would
\* be 0/0) and a rate from a current above them
C11_Witness ==
    /\ variant = "cd"
    /\ IsUpdate(call)
    /\ P_.max_current_ = P_.min_current_
    /\ \E i, j \in DOMAIN call :
         /\ call[i].op = "set_rate"
         /\ call[i].val = FromInt(P_.min_current_)
         /\ call[i].rate = P_.min_rate_
         /\ call[j].op = "set_rate"
         /\ RatLT(FromInt(P_.max_current_), call[j].val)
         /\ call[j].rate = P_.max_rate_

\* the current update drained at step lag
DrainedAt(lag) ==
    LET i == CHOOSE k \in DOMAIN call :
                 call[k].op = "get_value" /\ call[k].lag = lag
    IN  call[i].arg

\* C12: the change detection of the linear variant is only an optimization:
\* at every draw of every update the rate is the linear map, under the live
\* Parameters, of the current just drained, and the lambda is the one derived
\* from that rate, as in a device that recomputes both at every step
C12_ChangeDetectionIsOptimization ==
    (variant = "cd" /\ IsUpdate(call)) =>
        \A i \in DOMAIN call :
            call[i].op = "ldev" =>
                /\ call[i].rate = LinearRate(P_, DrainedAt(call[i].lag))
                /\ call[i].lambda
                       = LambdaOf(LinearRate(P_, DrainedAt(call[i].lag)))

\* C13: on either variant every set_lambda call of calibrate and update
\* receives a value >= 0
C13_LambdaNonNegative ==
    \A i \in DOMAIN call :
        call[i].op = "set_lambda" => RatLE(Zero, call[i].lambda)
====
